---------------------------- MODULE Spec2Model ----------------------------
(***************************************************************************)
(* A model of the web server crate: the wire-protocol layer of http.rs     *)
(* (Request::parse, Header::from_str, Response::to_raw) and the server of  *)
(* lib.rs (WebServer::launch, WebServer::handle_connection) running its    *)
(* jobs on the worker pool.                                                *)
(*                                                                         *)
(* Text is modelled at the byte level: a string is a sequence of bytes and *)
(* a byte is a one-character TLA+ string.  Three bytes are not ASCII:      *)
(*   LEAD, CONT  the two bytes of one two-byte UTF-8 character             *)
(*   BAD         a byte that never occurs in UTF-8 (0xFF)                  *)
(*   NUL         the zero byte the read buffer is initialised with         *)
(***************************************************************************)
EXTENDS Integers, Sequences, FiniteSets, TLC

-----------------------------------------------------------------------------
(* Bytes and literals *)

CR == "\r"
LF == "\n"
SP == " "
COLON == ":"
NUL == "0x00"
LEAD == "0xC3"
CONT == "0xA9"
BAD == "0xFF"

CRLF == <<CR, LF>>

GET == <<"G", "E", "T">>
POST == <<"P", "O", "S", "T">>
HEAD == <<"H", "E", "A", "D">>
PUT == <<"P", "U", "T">>
HOST == <<"H", "o", "s", "t">>

\* pub const HTTP_VERSION: &str = "HTTP/1.1";
HTTP_VERSION == <<"H", "T", "T", "P", "/", "1", ".", "1">>

-----------------------------------------------------------------------------
(* str and slice primitives of the standard library, as the code uses them *)

Min(a, b) == IF a < b THEN a ELSE b

\* s[from..] of a sequence, from counted from 1; empty when from > Len(s)
Drop(s, from) == SubSeq(s, from, Len(s))

\* s[..=upto]
Take(s, upto) == SubSeq(s, 1, upto)

\* does pat occur in s at position i (1-based)
MatchAt(s, pat, i) ==
    /\ i + Len(pat) - 1 <= Len(s)
    /\ \A k \in 1..Len(pat) : s[i + k - 1] = pat[k]

\* position of the first occurrence of pat in s, 0 when there is none
Find(s, pat) ==
    IF \E i \in 1..Len(s) : MatchAt(s, pat, i)
    THEN CHOOSE i \in 1..Len(s) :
            /\ MatchAt(s, pat, i)
            /\ \A k \in 1..(i - 1) : ~MatchAt(s, pat, k)
    ELSE 0

\* str::split(pat).collect(): every piece between occurrences of pat, empty
\* pieces included; a string without pat (the empty string too) is one piece
RECURSIVE Split(_, _)
Split(s, pat) ==
    LET i == Find(s, pat)
    IN  IF i = 0
        THEN <<s>>
        ELSE <<Take(s, i - 1)>> \o Split(Drop(s, i + Len(pat)), pat)

\* [&str]::concat()
RECURSIVE Concat(_)
Concat(ss) == IF ss = <<>> THEN <<>> ELSE Head(ss) \o Concat(Tail(ss))

\* [String]::join(sep)
RECURSIVE Join(_, _)
Join(ss, sep) ==
    IF ss = <<>> THEN <<>>
    ELSE IF Len(ss) = 1 THEN ss[1]
    ELSE ss[1] \o sep \o Join(Tail(ss), sep)

\* std::str::from_utf8: the bytes are text iff no byte is one UTF-8 never
\* uses, every lead byte is followed by its continuation byte and every
\* continuation byte follows its lead byte
ValidUtf8(bytes) ==
    \A i \in 1..Len(bytes) :
        /\ bytes[i] # BAD
        /\ bytes[i] = LEAD => (i < Len(bytes) /\ bytes[i + 1] = CONT)
        /\ bytes[i] = CONT => (i > 1 /\ bytes[i - 1] = LEAD)

\* is byte offset off (0-based, as in Rust) a character boundary of text s
IsCharBoundary(s, off) ==
    \/ off = 0
    \/ off = Len(s)
    \/ (off < Len(s) /\ s[off + 1] # CONT)

-----------------------------------------------------------------------------
(* Results: Ok values, WebServerError values and panics *)

\* fn parse_error(error) = WebServerError::IOError(Error::new(InvalidData, error))
parse_error(msg) == [tag |-> "Err", kind |-> "IOError", msg |-> msg]

Utf8Error == [tag |-> "Err", kind |-> "Utf8Error", msg |-> "invalid utf-8"]

Panic(msg) == [tag |-> "Panic", kind |-> "panic", msg |-> msg]

IsOk(r) == r.tag = "Ok"
IsErr(r) == r.tag = "Err"
IsPanic(r) == r.tag = "Panic"

-----------------------------------------------------------------------------
(* http.rs: Header and Request *)

HeaderHost(v) == [variant |-> "Host", name |-> HOST, value |-> v]
HeaderOther(n, v) == [variant |-> "Other", name |-> n, value |-> v]

\* impl FromStr for Header
Header_from_str(line) ==
    LET c == Find(line, <<COLON>>)
        header == Take(line, c - 1)
        contents == Drop(line, c + 1)
    IN  IF c = 0
        THEN parse_error("Incorrectly formatted header")
        ELSE IF Len(contents) < 1 \/ ~IsCharBoundary(contents, 1)
        THEN Panic("byte index 1 is out of bounds or not a char boundary")
        ELSE IF header = HOST
        THEN [tag |-> "Ok", header |-> HeaderHost(Drop(contents, 2))]
        ELSE [tag |-> "Ok", header |-> HeaderOther(header, Drop(contents, 2))]

\* the while loop of parse_request_headers_and_data; current_line is the
\* 0-based index of the code, request[current_line] is request[current_line + 1]
RECURSIVE HeaderLoop(_, _, _)
HeaderLoop(request, current_line, headers) ==
    IF /\ current_line < Len(request)
       /\ request[current_line + 1] # CRLF
       /\ request[current_line + 1] # <<>>
    THEN LET h == Header_from_str(request[current_line + 1])
         IN  IF IsOk(h)
             THEN HeaderLoop(request, current_line + 1, Append(headers, h.header))
             ELSE h
    ELSE [tag |-> "Ok", headers |-> headers, current_line |-> current_line]

NoData == [some |-> FALSE, value |-> <<>>]
SomeData(d) == [some |-> TRUE, value |-> d]

\* Request::parse_request_headers_and_data
parse_request_headers_and_data(request) ==
    LET loop == HeaderLoop(request, 1, <<>>)
    IN  IF ~IsOk(loop)
        THEN loop
        ELSE LET from == loop.current_line + 1
                 \* request.get(from..): None when from > request.len()
                 data == IF from > Len(request)
                         THEN NoData
                         ELSE SomeData(Concat(Drop(request, from + 1)))
             IN  [tag |-> "Ok", headers |-> loop.headers, data |-> data]

MethodGet == [variant |-> "Get", data |-> <<>>]
MethodHead == [variant |-> "Head", data |-> <<>>]
MethodPost(d) == [variant |-> "Post", data |-> d]

\* the match on first_line[0] in Request::parse
MatchMethod(token, data) ==
    IF token = GET
    THEN [tag |-> "Ok", method |-> MethodGet]
    ELSE IF token = POST
    THEN IF data.some
         THEN [tag |-> "Ok", method |-> MethodPost(data.value)]
         ELSE parse_error("Post missing data")
    ELSE parse_error("Failed to match request type with")

\* Request::parse with the field count checked by < instead of !=
Request_parse_AtLeast3(request) ==
    LET request_lines == Split(request, CRLF)
        first_line == Split(request_lines[1], <<SP>>)
    IN  IF Len(first_line) < 3
        THEN parse_error("Malformed request")
        ELSE LET hd == parse_request_headers_and_data(request_lines)
             IN  IF ~IsOk(hd)
                 THEN hd
                 ELSE LET m == MatchMethod(first_line[1], hd.data)
                      IN  IF ~IsOk(m)
                          THEN m
                          ELSE [tag |-> "Ok",
                                uri |-> first_line[2],
                                http_version |-> first_line[3],
                                headers |-> hd.headers,
                                method |-> m.method]

\* Request::parse
Request_parse(request) ==
    LET request_lines == Split(request, CRLF)
        first_line == Split(request_lines[1], <<SP>>)
    IN  IF Len(first_line) # 3
        THEN parse_error("Malformed request")
        ELSE LET hd == parse_request_headers_and_data(request_lines)
             IN  IF ~IsOk(hd)
                 THEN hd
                 ELSE LET m == MatchMethod(first_line[1], hd.data)
                      IN  IF ~IsOk(m)
                          THEN m
                          ELSE [tag |-> "Ok",
                                uri |-> first_line[2],
                                http_version |-> first_line[3],
                                headers |-> hd.headers,
                                method |-> m.method]

-----------------------------------------------------------------------------
(* http.rs: ContentType, Header display, ResponseType and Response *)

STR_CONTENT_LENGTH ==
    <<"C", "o", "n", "t", "e", "n", "t", "-", "L", "e", "n", "g", "t", "h">>

STR_CONTENT_TYPE ==
    <<"C", "o", "n", "t", "e", "n", "t", "-", "T", "y", "p", "e">>

STR_TEXT_HTML ==
    <<"t", "e", "x", "t", "/", "h", "t", "m", "l">>

STR_TEXT_JAVASCRIPT ==
    <<"t", "e", "x", "t", "/", "j", "a", "v", "a", "s", "c", "r", "i", "p",
      "t">>

STR_APPLICATION_WASM ==
    <<"a", "p", "p", "l", "i", "c", "a", "t", "i", "o", "n", "/", "w", "a",
      "s", "m">>

STR_CHARSET ==
    <<SP, "c", "h", "a", "r", "s", "e", "t", COLON>>

STR_UTF8 ==
    <<"u", "t", "f", "-", "8">>

STR_OK ==
    <<"O", "k">>

STR_FORBIDDEN ==
    <<"F", "o", "r", "b", "i", "d", "d", "e", "n">>

STR_NOT_FOUND ==
    <<"N", "o", "t", SP, "F", "o", "u", "n", "d">>

STR_METHOD_NOT_ALLOWED ==
    <<"M", "e", "t", "h", "o", "d", SP, "N", "o", "t", SP, "A", "l", "l",
      "o", "w", "e", "d">>

STR_INTERNAL_SERVER_ERROR ==
    <<"I", "n", "t", "e", "r", "n", "a", "l", SP, "S", "e", "r", "v", "e",
      "r", SP, "E", "r", "r", "o", "r">>

\* the decimal digits of a usize, as format!("{}", n) writes them
Digit(d) == <<"0", "1", "2", "3", "4", "5", "6", "7", "8", "9">>[d + 1]

RECURSIVE ToDecimal(_)
ToDecimal(n) ==
    IF n < 10 THEN <<Digit(n)>> ELSE ToDecimal(n \div 10) \o <<Digit(n % 10)>>

\* ContentType values: TextHTML(Option<Charset>), TextJavascript(..), ApplicationWASM
ContentTypeHtml == [variant |-> "TextHTML", charset |-> FALSE]

\* impl Display for ContentType
ContentType_fmt(c) ==
    IF c.variant = "TextHTML"
    THEN IF c.charset THEN STR_TEXT_HTML \o STR_CHARSET \o STR_UTF8 ELSE STR_TEXT_HTML
    ELSE IF c.variant = "TextJavascript"
    THEN IF c.charset
         THEN STR_TEXT_JAVASCRIPT \o STR_CHARSET \o STR_UTF8
         ELSE STR_TEXT_JAVASCRIPT
    ELSE STR_APPLICATION_WASM

HeaderContentLength(n) == [variant |-> "ContentLength", n |-> n]
HeaderContentType(c) == [variant |-> "ContentType", content_type |-> c]

\* impl Display for Header
Header_fmt(h) ==
    IF h.variant = "Host"
    THEN HOST \o <<COLON, SP>> \o h.value
    ELSE IF h.variant = "ContentLength"
    THEN STR_CONTENT_LENGTH \o <<COLON, SP>> \o ToDecimal(h.n)
    ELSE IF h.variant = "ContentType"
    THEN STR_CONTENT_TYPE \o <<COLON, SP>> \o ContentType_fmt(h.content_type)
    ELSE h.name \o <<COLON, SP>> \o h.value

\* ResponseType::condition_code
condition_code(which) ==
    CASE which = "Ok" -> 200
      [] which = "Forbidden" -> 403
      [] which = "NotFound" -> 404
      [] which = "MethodNotAllowed" -> 405
      [] which = "InternalServerError" -> 500

\* ResponseType::name
name(which) ==
    CASE which = "Ok" -> STR_OK
      [] which = "Forbidden" -> STR_FORBIDDEN
      [] which = "NotFound" -> STR_NOT_FOUND
      [] which = "MethodNotAllowed" -> STR_METHOD_NOT_ALLOWED
      [] which = "InternalServerError" -> STR_INTERNAL_SERVER_ERROR

\* impl ToString for ResponseType
ResponseType_to_string(which) ==
    ToDecimal(condition_code(which)) \o <<SP>> \o name(which)

\* the headers of a Response, each displayed, joined by CRLF
RECURSIVE HeaderStrings(_)
HeaderStrings(hs) ==
    IF hs = <<>> THEN <<>> ELSE <<Header_fmt(Head(hs))>> \o HeaderStrings(Tail(hs))

\* Response::to_raw with the body put after a single CRLF
to_raw_BodyAfterOneCRLF(r) ==
    LET headers == Join(HeaderStrings(r.headers), CRLF)
        status == r.http_version \o <<SP>> \o ResponseType_to_string(r.which)
    IN  IF r.data.some
        THEN status \o CRLF \o headers \o CRLF \o r.data.value
        ELSE status \o CRLF \o headers

\* Response::to_raw
to_raw(r) ==
    LET headers == Join(HeaderStrings(r.headers), CRLF)
        status == r.http_version \o <<SP>> \o ResponseType_to_string(r.which)
    IN  IF r.data.some
        THEN status \o CRLF \o headers \o CRLF \o CRLF \o r.data.value
        ELSE status \o CRLF \o headers

\* Response::to_head returning a copy of the whole Response
to_head_KeepsBody(r) ==
    [which |-> r.which, http_version |-> r.http_version,
     headers |-> r.headers, data |-> r.data]

\* Response::to_head
to_head(r) ==
    [which |-> r.which, http_version |-> r.http_version,
     headers |-> r.headers, data |-> NoData]

INTERNAL_ERROR_HTML ==
    <<LF, "<", "!", "D", "O", "C", "T", "Y", "P", "E", SP, "h", "t", "m",
      "l", ">", LF, "<", "h", "t", "m", "l", SP, "l", "a", "n", "g", "=",
      "\"", "e", "n", "\"", ">", LF, LF, "<", "h", "e", "a", "d", ">", LF,
      SP, SP, SP, SP, "<", "m", "e", "t", "a", SP, "c", "h", "a", "r", "s",
      "e", "t", "=", "\"", "u", "t", "f", "-", "8", "\"", ">", LF, SP, SP,
      SP, SP, "<", "t", "i", "t", "l", "e", ">", "I", "n", "t", "e", "r",
      "n", "a", "l", SP, "S", "e", "r", "v", "e", "r", SP, "E", "r", "r",
      "o", "r", SP, "(", "5", "0", "0", ")", "<", "/", "t", "i", "t", "l",
      "e", ">", LF, "<", "/", "h", "e", "a", "d", ">", LF, LF, "<", "b",
      "o", "d", "y", ">", LF, SP, SP, SP, SP, "<", "h", "1", ">", "I", "n",
      "t", "e", "r", "n", "a", "l", SP, "S", "e", "r", "v", "e", "r", SP,
      "E", "r", "r", "o", "r", SP, "(", "5", "0", "0", ")", "<", "/", "h",
      "1", ">", LF, SP, SP, SP, SP, "<", "p", ">", "S", "o", "m", "e", "t",
      "h", "i", "n", "g", SP, "w", "e", "n", "t", SP, "w", "r", "o", "n",
      "g", "!", SP, "T", "h", "e", SP, "s", "e", "r", "v", "e", "r", SP,
      "i", "s", SP, "c", "o", "n", "f", "u", "s", "e", "d", ".", "<", "/",
      "p", ">", LF, "<", "/", "b", "o", "d", "y", ">", LF, LF, "<", "/",
      "h", "t", "m", "l", ">">>

\* Response::empty_internal_server_error
empty_internal_server_error ==
    [which |-> "InternalServerError",
     http_version |-> HTTP_VERSION,
     headers |-> <<HeaderContentLength(Len(INTERNAL_ERROR_HTML)),
                   HeaderContentType(ContentTypeHtml)>>,
     data |-> SomeData(INTERNAL_ERROR_HTML)]

\* the values of ContentType
ContentTypes ==
    {[variant |-> "TextHTML", charset |-> FALSE],
     [variant |-> "TextHTML", charset |-> TRUE],
     [variant |-> "TextJavascript", charset |-> FALSE],
     [variant |-> "TextJavascript", charset |-> TRUE],
     [variant |-> "ApplicationWASM", charset |-> FALSE]}

\* the values of ResponseType
ResponseTypes ==
    {"Ok", "NotFound", "Forbidden", "MethodNotAllowed", "InternalServerError"}

\* a file fs::read fails on
NoFile == [exists |-> FALSE, bytes |-> <<>>]

\* a file fs::read returns the bytes of
FileOf(bytes) == [exists |-> TRUE, bytes |-> bytes]

\* Response::serve_file, file being what is found at filename
serve_file(file, content_type, response_type) ==
    IF ~file.exists
    THEN [tag |-> "Err", kind |-> "IOError", msg |-> "read"]
    ELSE [tag |-> "Ok",
          response |->
              [which |-> response_type,
               http_version |-> HTTP_VERSION,
               headers |-> <<HeaderContentLength(Len(file.bytes)),
                             HeaderContentType(content_type)>>,
               data |-> SomeData(file.bytes)]]

-----------------------------------------------------------------------------
(* The texts Request::parse is applied to *)

MaxLines == 3

Words(ws) == Join(ws, <<SP>>)

URI == <<"/">>

\* first lines: three fields with several method tokens, and lines with one,
\* two and four fields (an empty field between two spaces counts)
FirstLines ==
    {Words(<<m, URI, HTTP_VERSION>>) :
        m \in {GET, POST, HEAD, PUT, <<"g", "e", "t">>, <<>>}}
    \cup {Words(<<m, URI>>) : m \in {GET, POST}}
    \cup {Words(<<m, URI, HTTP_VERSION, <<"x">>>>) : m \in {GET, POST}}
    \cup {Words(<<POST, <<>>, URI, HTTP_VERSION>>)}
    \cup {<<>>, GET, POST}

\* lines after the first: the blank line, two well-formed headers, a line
\* without a colon, a header with nothing after its colon and a header whose
\* value starts with a two-byte character
BlankLine == <<>>
LineHostA == HOST \o <<COLON, SP, "a">>
LineXB == <<"X", COLON, SP, "b">>
LineNoColon == <<"a", "b">>
LineHostNothing == HOST \o <<COLON>>
LineXTwoByte == <<"X", COLON, LEAD, CONT>>

RestLines ==
    {BlankLine, LineHostA, LineXB, LineNoColon, LineHostNothing, LineXTwoByte}

\* what follows the last line: nothing, or zero bytes
Tails == {<<>>, <<NUL, NUL>>}

LineSeqs == UNION {[1..k -> RestLines] : k \in 0..MaxLines}

\* the lines of a text: a first line, the lines after it, and the tail as
\* the end of the last line
TextLines(first, rest, tail) ==
    LET all == <<first>> \o rest
    IN  [i \in 1..Len(all) |-> IF i = Len(all) THEN all[i] \o tail ELSE all[i]]

NotParsed == [tag |-> "NotParsed"]

VARIABLES
    text_lines,     \* the lines of the text handed to Request::parse
    parsed          \* the value Request::parse returned, NotParsed before

parseVars == <<text_lines, parsed>>

\* the text itself
Text(ls) == Join(ls, CRLF)

InitParse ==
    /\ \E first \in FirstLines, rest \in LineSeqs, tail \in Tails :
          text_lines = TextLines(first, rest, tail)
    /\ parsed = NotParsed

IdleParse ==
    /\ text_lines = <<>>
    /\ parsed = NotParsed

\* a call of Request::parse on the text
ParseCall ==
    /\ parsed = NotParsed
    /\ text_lines # <<>>
    /\ parsed' = Request_parse(Text(text_lines))
    /\ UNCHANGED text_lines

-----------------------------------------------------------------------------
(* The Responses to_raw and to_head are applied to *)

\* the longest file serve_file is given
MaxFileLen == 2

\* bytes of a file: a letter, the bytes of a line end, a byte that is not
\* UTF-8
FileBytes == {"h", CR, LF, BAD}

Files == {NoFile} \cup {FileOf(b) : b \in UNION {[1..k -> FileBytes] : k \in 0..MaxFileLen}}

NotBuilt == [tag |-> "NotBuilt"]
NoBytes == [tag |-> "NoBytes"]

VARIABLES
    built,          \* what the constructor of the Response returned, NotBuilt before
    raw_bytes,      \* built.to_raw(), NoBytes before the call
    head_response,  \* built.to_head(), NotBuilt before the call
    head_bytes      \* built.to_head().to_raw(), NoBytes before the call

respVars == <<built, raw_bytes, head_response, head_bytes>>

pureVars == <<parseVars, respVars>>

IdleResponse ==
    /\ built = NotBuilt
    /\ raw_bytes = NoBytes
    /\ head_response = NotBuilt
    /\ head_bytes = NoBytes

\* a call of Response::serve_file (html_page is serve_file with
\* ContentType::html() and ResponseType::Ok)
ServeFile(file, content_type, response_type) ==
    /\ built = NotBuilt
    /\ built' = serve_file(file, content_type, response_type)
    /\ UNCHANGED <<raw_bytes, head_response, head_bytes, parseVars>>

\* Response::serve_file(..)?.to_head(): a Response without a body
ServeHead(file, content_type, response_type) ==
    /\ built = NotBuilt
    /\ LET made == serve_file(file, content_type, response_type)
       IN  built' = IF IsOk(made)
                    THEN [tag |-> "Ok", response |-> to_head(made.response)]
                    ELSE made
    /\ UNCHANGED <<raw_bytes, head_response, head_bytes, parseVars>>

\* a call of Response::empty_internal_server_error
EmptyInternalServerError ==
    /\ built = NotBuilt
    /\ built' = [tag |-> "Ok", response |-> empty_internal_server_error]
    /\ UNCHANGED <<raw_bytes, head_response, head_bytes, parseVars>>

\* response.to_raw(), response borrowed
ToRaw ==
    /\ IsOk(built)
    /\ raw_bytes = NoBytes
    /\ raw_bytes' = to_raw(built.response)
    /\ UNCHANGED <<built, head_response, head_bytes, parseVars>>

\* response.to_head(), response borrowed
ToHead ==
    /\ IsOk(built)
    /\ head_response = NotBuilt
    /\ head_response' = to_head(built.response)
    /\ UNCHANGED <<built, raw_bytes, head_bytes, parseVars>>

\* to_raw() of the Response to_head() returned
HeadToRaw ==
    /\ head_response # NotBuilt
    /\ head_bytes = NoBytes
    /\ head_bytes' = to_raw(head_response)
    /\ UNCHANGED <<built, raw_bytes, head_response, parseVars>>

-----------------------------------------------------------------------------
(* lib.rs: the server.  Bounds of the model. *)

\* the largest worker_count WebServer::new is called with
MaxWorkers == 2

\* items listener.incoming() yields (connections and failed accepts) before
\* the model stops accepting
MaxIncoming == 2

\* const BUFFER_SIZE: usize = 65536, scaled down: long enough for every
\* request a peer of the model sends, with zero bytes left over
BUFFER_SIZE == 32

-----------------------------------------------------------------------------
(* Peers: what arrives on an accepted connection *)

ReqGet == Text(<<Words(<<GET, URI, HTTP_VERSION>>), LineHostA, <<>>, <<>>>>)
ReqPost == Text(<<Words(<<POST, URI, HTTP_VERSION>>), LineXB, <<>>, <<"d">>>>)
ReqTwoFields == Text(<<Words(<<GET, URI>>), <<>>, <<>>>>)
ReqHead == Text(<<Words(<<HEAD, URI, HTTP_VERSION>>), <<>>, <<>>>>)
ReqBadUtf8 == Text(<<Words(<<GET, URI, HTTP_VERSION>>), <<"X", COLON, SP, BAD>>, <<>>, <<>>>>)
ReqHostNothing == Text(<<Words(<<GET, URI, HTTP_VERSION>>), LineHostNothing, <<>>, <<>>>>)

\* requests whose ends differ: a POST with the blank line and nothing after
\* it, a GET that ends with its header line, a GET that is a first line only
ReqPostNoBody == Text(<<Words(<<POST, URI, HTTP_VERSION>>), LineXB, <<>>, <<>>>>)
ReqGetNoEnd == Text(<<Words(<<GET, URI, HTTP_VERSION>>), LineHostA>>)
ReqGetBare == Words(<<GET, URI, HTTP_VERSION>>)

\* a peer sends bytes, or sends nothing and keeps the connection open for
\* ever (stalled), or resets the connection so that the read fails (reset);
\* which of these it does shows when the job reads from the connection
Sends(bytes) == [sent |-> bytes, stalled |-> FALSE, reset |-> FALSE, silent |-> FALSE]
StalledPeer == [sent |-> <<>>, stalled |-> TRUE, reset |-> FALSE, silent |-> FALSE]
ResetPeer == [sent |-> <<>>, stalled |-> FALSE, reset |-> TRUE, silent |-> FALSE]

NoPeerYet == [sent |-> <<>>, stalled |-> FALSE, reset |-> FALSE, silent |-> TRUE]

Peers ==
    {Sends(ReqGet), Sends(ReqTwoFields), Sends(ReqBadUtf8),
     Sends(ReqHostNothing), StalledPeer, ResetPeer}

\* peers that send a request, each shorter than the buffer
RequestPeers ==
    {Sends(ReqGet), Sends(ReqPost), Sends(ReqPostNoBody), Sends(ReqGetNoEnd),
     Sends(ReqGetBare), Sends(ReqTwoFields)}

RECURSIVE Zeros(_)
Zeros(n) == IF n <= 0 THEN <<>> ELSE <<NUL>> \o Zeros(n - 1)

\* let mut buffer = [0; BUFFER_SIZE] after stream.read(&mut buffer) returned n
BufferAfterRead(sent, n) == Take(sent, n) \o Zeros(BUFFER_SIZE - n)

\* the number of bytes one read call delivers
ReadCount(peer) == Min(Len(peer.sent), BUFFER_SIZE)

-----------------------------------------------------------------------------
(* The handler, an external function Request -> Result<Response> *)

OkResponse ==
    [which |-> "Ok",
     http_version |-> HTTP_VERSION,
     headers |-> <<HeaderContentLength(2), HeaderContentType(ContentTypeHtml)>>,
     data |-> SomeData(<<"h", "i">>)]

\* what a call of the handler can do: return a Response, return an error,
\* or panic
HandlerOutcomes ==
    {[tag |-> "Ok", response |-> OkResponse],
     [tag |-> "Err", kind |-> "Other", msg |-> "handler error"],
     Panic("handler")}

\* the Response a caller passes to set_custom_internal_error_page
CustomPage ==
    [which |-> "InternalServerError",
     http_version |-> HTTP_VERSION,
     headers |-> <<HeaderContentLength(4)>>,
     data |-> SomeData(<<"o", "o", "p", "s">>)]

CustomPages == {CustomPage}

NoResponse == [which |-> "none"]

-----------------------------------------------------------------------------
(* State of the server *)

VARIABLES
    launch_pc,              \* "new" after WebServer::new, "incoming" in launch
    internal_error_page,    \* WebServer.internal_error_page
    accept_errors,          \* "Error on connection attempt" lines printed
    conns,                  \* accepted connections, by connection number
    jobs,                   \* jobs given to the pool, by job number
    queue,                  \* the pool's shared job queue (job numbers)
    workers,                \* the pool's workers
    sender_open,            \* the sending side of the job channel is open
    drop_pc                 \* "live", "joining" (drop waits), "returned"

serverVars ==
    <<launch_pc, internal_error_page, accept_errors, conns, jobs, queue,
      workers, sender_open, drop_pc>>

vars == <<pureVars, serverVars>>

IdleWorker == [state |-> "idle", job |-> 0]

\* the workers ThreadPool::new(worker_count) created
Workers == DOMAIN workers

\* WebServer::new(addr, worker_count, handler), worker_count >= 1
InitServer ==
    /\ launch_pc = "new"
    /\ internal_error_page = empty_internal_server_error
    /\ accept_errors = 0
    /\ conns = <<>>
    /\ jobs = <<>>
    /\ queue = <<>>
    /\ \E worker_count \in 1..MaxWorkers :
          workers = [w \in 1..worker_count |-> IdleWorker]
    /\ sender_open = TRUE
    /\ drop_pc = "live"

\* errors_before records how many accepts had failed when this one
\* succeeded, after_panic whether a worker had panicked by then
NewConn ==
    [peer |-> NoPeerYet, received |-> <<>>, handler_calls |-> 0,
     handler_threads |-> {}, errors_before |-> accept_errors,
     after_panic |-> \E w \in Workers : workers[w].state = "panicked"]

\* a closure that captures the first connection instead of its own
NewJob_SharedStream(stream) ==
    [stream |-> 1, pc |-> "queued", executions |-> 0,
     buffer |-> <<>>, request |-> NotParsed, handler_outcome |-> "",
     response |-> NoResponse,
     ended_at |-> "", logged |-> ""]

\* the closure launch gives to execute: it owns the stream
NewJob(stream) ==
    [stream |-> stream, pc |-> "queued", executions |-> 0,
     buffer |-> <<>>, request |-> NotParsed, handler_outcome |-> "",
     response |-> NoResponse,
     ended_at |-> "", logged |-> ""]

-----------------------------------------------------------------------------
(* The worker pool: ThreadPool::new, execute, the worker loop and Drop *)

\* ThreadPool::execute: the job goes to the end of the shared queue and the
\* call returns
execute(q, j) == Append(q, j)

\* a worker takes the job at the head of the queue
Dequeue(q) == Tail(q)

\* a worker whose job returned waits for the next one
WorkerAfterJob == IdleWorker

\* a worker whose job panicked is gone
WorkerAfterPanic(j) == [state |-> "panicked", job |-> j]

Finished(w) == workers[w].state \in {"terminated", "panicked"}

\* worker loop: receive a job and run it
WorkerReceive(w) ==
    /\ workers[w].state = "idle"
    /\ queue # <<>>
    /\ LET j == Head(queue)
       IN  /\ queue' = Dequeue(queue)
           /\ workers' = [workers EXCEPT ![w] = [state |-> "running", job |-> j]]
           /\ jobs' = [jobs EXCEPT ![j].pc = "read", ![j].executions = @ + 1]
    /\ UNCHANGED <<launch_pc, internal_error_page, accept_errors, conns,
                   sender_open, drop_pc, pureVars>>

\* worker loop: the queue is empty and the channel is closed
WorkerQueueClosed(w) ==
    /\ workers[w].state = "idle"
    /\ queue = <<>>
    /\ ~sender_open
    /\ workers' = [workers EXCEPT ![w] = [state |-> "terminated", job |-> 0]]
    /\ UNCHANGED <<launch_pc, internal_error_page, accept_errors, conns, jobs,
                   queue, sender_open, drop_pc, pureVars>>

\* the server value is dropped (it is never dropped by launch itself, whose
\* loop does not end): the pool closes the channel and waits
ServerDrop ==
    /\ drop_pc = "live"
    /\ drop_pc' = "joining"
    /\ sender_open' = FALSE
    /\ UNCHANGED <<launch_pc, internal_error_page, accept_errors, conns, jobs,
                   queue, workers, pureVars>>

\* drop returns once every worker thread has been joined
DropJoined ==
    /\ drop_pc = "joining"
    /\ \A w \in Workers : Finished(w)
    /\ drop_pc' = "returned"
    /\ UNCHANGED <<launch_pc, internal_error_page, accept_errors, conns, jobs,
                   queue, workers, sender_open, pureVars>>

-----------------------------------------------------------------------------
(* WebServer::set_custom_internal_error_page and WebServer::launch *)

SetCustomPage(response) ==
    /\ launch_pc = "new"
    /\ drop_pc = "live"
    /\ internal_error_page # response
    /\ internal_error_page' = response
    /\ UNCHANGED <<launch_pc, accept_errors, conns, jobs, queue, workers,
                   sender_open, drop_pc, pureVars>>

Launch ==
    /\ launch_pc = "new"
    /\ drop_pc = "live"
    /\ launch_pc' = "incoming"
    /\ UNCHANGED <<internal_error_page, accept_errors, conns, jobs, queue,
                   workers, sender_open, drop_pc, pureVars>>

\* Ok(stream) => the job is put ahead of the jobs that wait
AcceptOk_SubmitsAhead ==
    /\ launch_pc = "incoming"
    /\ drop_pc = "live"
    /\ Len(conns) + accept_errors < MaxIncoming
    /\ conns' = Append(conns, NewConn)
    /\ jobs' = Append(jobs, NewJob(Len(conns) + 1))
    /\ queue' = <<Len(jobs) + 1>> \o queue
    /\ UNCHANGED <<launch_pc, internal_error_page, accept_errors, workers,
                   sender_open, drop_pc, pureVars>>

\* Ok(stream) => one job owning the stream is given to the pool
AcceptOk ==
    /\ launch_pc = "incoming"
    /\ drop_pc = "live"
    /\ Len(conns) + accept_errors < MaxIncoming
    /\ conns' = Append(conns, NewConn)
    /\ jobs' = Append(jobs, NewJob(Len(conns) + 1))
    /\ queue' = execute(queue, Len(jobs) + 1)
    /\ UNCHANGED <<launch_pc, internal_error_page, accept_errors, workers,
                   sender_open, drop_pc, pureVars>>

\* Err(e) => the error is printed and launch returns
AcceptErr_Returns ==
    /\ launch_pc = "incoming"
    /\ drop_pc = "live"
    /\ Len(conns) + accept_errors < MaxIncoming
    /\ accept_errors' = accept_errors + 1
    /\ launch_pc' = "returned"
    /\ UNCHANGED <<internal_error_page, conns, jobs, queue, workers,
                   sender_open, drop_pc, pureVars>>

\* Err(e) => println!("Error on connection attempt: {}", e)
AcceptErr ==
    /\ launch_pc = "incoming"
    /\ drop_pc = "live"
    /\ Len(conns) + accept_errors < MaxIncoming
    /\ accept_errors' = accept_errors + 1
    /\ UNCHANGED <<launch_pc, internal_error_page, conns, jobs, queue, workers,
                   sender_open, drop_pc, pureVars>>

-----------------------------------------------------------------------------
(* WebServer::handle_connection, run by a worker as the job's closure *)

Running(w) == workers[w].state = "running"

\* a read that does not block: it returns 0 bytes when the peer sent nothing
ReadOutcome_NonBlocking(peer) ==
    IF peer.reset THEN Panic("called Result::unwrap() on an Err value")
    ELSE [tag |-> "Ok", buffer |-> BufferAfterRead(peer.sent, ReadCount(peer))]

\* stream.read(&mut buffer).unwrap(): blocks while the peer sends nothing,
\* panics when the read fails
ReadOutcome(peer) ==
    IF peer.stalled THEN [tag |-> "Blocked"]
    ELSE IF peer.reset THEN Panic("called Result::unwrap() on an Err value")
    ELSE [tag |-> "Ok", buffer |-> BufferAfterRead(peer.sent, ReadCount(peer))]

\* Request::parse(from_utf8(&buffer)?)
DecodeAndParse(buffer) ==
    IF ~ValidUtf8(buffer) THEN Utf8Error ELSE Request_parse(buffer)

\* (handler)(request).unwrap_or(internal_error_page)
unwrap_or(result, page) == IF IsOk(result) THEN result.response ELSE page

\* stream.write(&raw): some or all of the bytes are taken, or the write fails
WriteOutcomes(raw) ==
    {[tag |-> "Ok", n |-> n] : n \in {Min(1, Len(raw)), Len(raw)}}
    \cup {[tag |-> "Err", kind |-> "IOError", msg |-> "write"]}

\* the job's closure returns: handle_connection's error, if any, is printed
\* ("Error on handling request"), and the worker waits for the next job
JobReturns(w, j, stage, result) ==
    /\ jobs' = [jobs EXCEPT ![j].pc = "returned",
                            ![j].ended_at = stage,
                            ![j].buffer = <<>>,
                            ![j].logged = IF IsErr(result) THEN result.kind ELSE ""]
    /\ workers' = [workers EXCEPT ![w] = WorkerAfterJob]

\* the job panics and the panic takes every worker thread down
JobPanics_TakesPoolDown(w, j, stage) ==
    /\ jobs' = [jobs EXCEPT ![j].pc = "panicked",
                            ![j].ended_at = stage,
                            ![j].buffer = <<>>]
    /\ workers' = [x \in Workers |-> WorkerAfterPanic(j)]

\* the job panics: the panic unwinds out of the closure
JobPanics(w, j, stage) ==
    /\ jobs' = [jobs EXCEPT ![j].pc = "panicked",
                            ![j].ended_at = stage,
                            ![j].buffer = <<>>]
    /\ workers' = [workers EXCEPT ![w] = WorkerAfterPanic(j)]

\* lib.rs:51-52; peer is what the peer of the connection does
JobRead(w, peer) ==
    /\ Running(w)
    /\ LET j == workers[w].job
           c == jobs[j].stream
           r == ReadOutcome(peer)
       IN  /\ jobs[j].pc = "read"
           /\ conns[c].peer = NoPeerYet
           /\ conns' = [conns EXCEPT ![c].peer = peer]
           /\ IF r.tag = "Blocked" THEN UNCHANGED <<jobs, workers>>
              ELSE IF IsPanic(r) THEN JobPanics(w, j, "read")
              ELSE /\ jobs' = [jobs EXCEPT ![j].pc = "parse", ![j].buffer = r.buffer]
                   /\ UNCHANGED workers
    /\ UNCHANGED <<launch_pc, internal_error_page, accept_errors, queue,
                   sender_open, drop_pc, pureVars>>

\* a decode or parse error answered with the internal error page
JobParse_RespondsOnError(w) ==
    /\ Running(w)
    /\ LET j == workers[w].job
           r == DecodeAndParse(jobs[j].buffer)
       IN  /\ jobs[j].pc = "parse"
           /\ IF IsPanic(r) THEN JobPanics(w, j, "parse")
              ELSE IF IsErr(r)
              THEN jobs' = [jobs EXCEPT ![j].pc = "write",
                                        ![j].buffer = <<>>,
                                        ![j].response = internal_error_page]
                   /\ UNCHANGED workers
              ELSE /\ jobs' = [jobs EXCEPT ![j].pc = "handle",
                                           ![j].buffer = <<>>,
                                           ![j].request = r]
                   /\ UNCHANGED workers
    /\ UNCHANGED <<launch_pc, internal_error_page, accept_errors, conns, queue,
                   sender_open, drop_pc, pureVars>>

\* a decode or parse error ignored: the handler is given whatever came out
JobParse_IgnoresError(w) ==
    /\ Running(w)
    /\ LET j == workers[w].job
           r == DecodeAndParse(jobs[j].buffer)
       IN  /\ jobs[j].pc = "parse"
           /\ IF IsPanic(r) THEN JobPanics(w, j, "parse")
              ELSE /\ jobs' = [jobs EXCEPT ![j].pc = "handle",
                                           ![j].buffer = <<>>,
                                           ![j].request = r]
                   /\ UNCHANGED workers
    /\ UNCHANGED <<launch_pc, internal_error_page, accept_errors, conns, queue,
                   sender_open, drop_pc, pureVars>>

\* lib.rs:54
JobParse(w) ==
    /\ Running(w)
    /\ LET j == workers[w].job
           r == DecodeAndParse(jobs[j].buffer)
       IN  /\ jobs[j].pc = "parse"
           /\ IF IsPanic(r) THEN JobPanics(w, j, "parse")
              ELSE IF IsErr(r) THEN JobReturns(w, j, "parse", r)
              ELSE /\ jobs' = [jobs EXCEPT ![j].pc = "handle",
                                           ![j].buffer = <<>>,
                                           ![j].request = r]
                   /\ UNCHANGED workers
    /\ UNCHANGED <<launch_pc, internal_error_page, accept_errors, conns, queue,
                   sender_open, drop_pc, pureVars>>

\* lib.rs:58, the call of the handler and unwrap_or
JobHandle(w, outcome) ==
    /\ Running(w)
    /\ LET j == workers[w].job
           c == jobs[j].stream
       IN  /\ jobs[j].pc = "handle"
           /\ conns' = [conns EXCEPT ![c].handler_calls = @ + 1,
                                     ![c].handler_threads = @ \cup {"worker"}]
           /\ IF IsPanic(outcome)
              THEN /\ jobs' = [jobs EXCEPT ![j].pc = "panicked",
                                           ![j].ended_at = "handle",
                                           ![j].handler_outcome = outcome.tag]
                   /\ workers' = [workers EXCEPT ![w] = WorkerAfterPanic(j)]
              ELSE /\ jobs' = [jobs EXCEPT
                                 ![j].pc = "write",
                                 ![j].handler_outcome = outcome.tag,
                                 ![j].response = unwrap_or(outcome, internal_error_page)]
                   /\ UNCHANGED workers
    /\ UNCHANGED <<launch_pc, internal_error_page, accept_errors, queue,
                   sender_open, drop_pc, pureVars>>

\* lib.rs:58-61, to_raw, the write, the flush (TcpStream's flush does
\* nothing and returns Ok) and the return
JobWrite(w) ==
    /\ Running(w)
    /\ jobs[workers[w].job].pc = "write"
    /\ LET j == workers[w].job
           c == jobs[j].stream
           raw == to_raw(jobs[j].response)
       IN  \E outcome \in WriteOutcomes(raw) :
              /\ conns' = [conns EXCEPT ![c].received =
                             IF IsOk(outcome) THEN @ \o Take(raw, outcome.n) ELSE @]
              /\ JobReturns(w, j, "write", outcome)
    /\ UNCHANGED <<launch_pc, internal_error_page, accept_errors, queue,
                   sender_open, drop_pc, pureVars>>

-----------------------------------------------------------------------------
(* Specifications *)

Init == InitServer /\ IdleParse /\ IdleResponse

Next ==
    \/ \E response \in CustomPages : SetCustomPage(response)
    \/ Launch
    \/ AcceptOk
    \/ AcceptErr
    \/ \E w \in Workers : WorkerReceive(w)
    \/ \E w \in Workers : WorkerQueueClosed(w)
    \/ \E w \in Workers, peer \in Peers : JobRead(w, peer)
    \/ \E w \in Workers : JobParse(w)
    \/ \E w \in Workers, o \in HandlerOutcomes : JobHandle(w, o)
    \/ \E w \in Workers : JobWrite(w)
    \/ ServerDrop
    \/ DropJoined

Spec == Init /\ [][Next]_vars

\* launch and handle_connection up to the call of the handler, for peers
\* that send a request
NextRead ==
    \/ Launch
    \/ AcceptOk
    \/ \E w \in Workers : WorkerReceive(w)
    \/ \E w \in Workers, peer \in RequestPeers : JobRead(w, peer)
    \/ \E w \in Workers : JobParse(w)

SpecRead == Init /\ [][NextRead]_vars

\* Request::parse applied to one text
InitParseSpec == InitParse /\ IdleResponse /\ InitServer /\ Len(workers) = 1

NextParse == ParseCall /\ UNCHANGED <<respVars, serverVars>>

SpecParse == InitParseSpec /\ [][NextParse]_vars

\* the constructors of Response, to_raw and to_head applied to one Response
InitResponseSpec == IdleParse /\ IdleResponse /\ InitServer /\ Len(workers) = 1

NextResponse ==
    /\ \/ \E file \in Files, content_type \in ContentTypes,
               response_type \in ResponseTypes :
                  ServeFile(file, content_type, response_type)
       \/ \E file \in Files, content_type \in ContentTypes,
               response_type \in ResponseTypes :
                  ServeHead(file, content_type, response_type)
       \/ EmptyInternalServerError
       \/ ToRaw
       \/ ToHead
       \/ HeadToRaw
    /\ UNCHANGED serverVars

SpecResponse == InitResponseSpec /\ [][NextResponse]_vars

-----------------------------------------------------------------------------
(* What the claims about Request::parse speak of, read off the lines of the *)
(* text and not off the parser                                              *)

\* the number of fields single spaces split a line into
FieldCount(line) == 1 + Cardinality({i \in 1..Len(line) : line[i] = SP})

\* the field of a line before its first space
FirstField(line) ==
    IF Find(line, <<SP>>) = 0 THEN line ELSE Take(line, Find(line, <<SP>>) - 1)

\* the index of the first empty line after the first line, 0 if there is none
FirstBlank(ls) ==
    IF \E i \in 2..Len(ls) : ls[i] = <<>>
    THEN CHOOSE i \in 2..Len(ls) :
            ls[i] = <<>> /\ \A k \in 2..(i - 1) : ls[k] # <<>>
    ELSE 0

\* the lines a parser takes for headers: after the first line, before the
\* first empty line
HeaderLines(ls) ==
    IF FirstBlank(ls) = 0 THEN Drop(ls, 2) ELSE SubSeq(ls, 2, FirstBlank(ls) - 1)

\* a header line has a colon and, after its first colon, at least one byte,
\* the first of them a whole character
WellFormedHeader(line) ==
    \E i \in 1..(Len(line) - 1) :
        /\ line[i] = COLON
        /\ \A k \in 1..(i - 1) : line[k] # COLON
        /\ line[i + 1] \notin {LEAD, CONT}

HeadersWellFormed(ls) ==
    \A i \in 1..Len(HeaderLines(ls)) : WellFormedHeader(HeaderLines(ls)[i])

\* the blank-line separator is an empty line that a CRLF ends
HasSeparator(ls) == FirstBlank(ls) # 0 /\ FirstBlank(ls) < Len(ls)

\* the text after the separator
AfterSeparator(ls) == Text(Drop(ls, FirstBlank(ls) + 1))

Parsed == parsed # NotParsed

\* C8: a first line that single spaces do not split into exactly 3 fields
\* makes Request::parse return the malformed-request error (and not panic),
\* whatever the other lines are
C8_MalformedFirstLine ==
    (Parsed /\ FieldCount(text_lines[1]) # 3)
        => parsed = parse_error("Malformed request")

\* C8 witness: parse has returned for a first line of 4 fields followed by
\* a header line that has nothing after its colon
C8_Witness ==
    /\ Parsed
    /\ FieldCount(text_lines[1]) = 4
    /\ Len(text_lines) >= 2
    /\ text_lines[2] = LineHostNothing

IsPostRequest(ls) ==
    /\ FieldCount(ls[1]) = 3
    /\ FirstField(ls[1]) = POST
    /\ HeadersWellFormed(ls)

\* C9: a POST request with well-formed first line and headers gives the
\* "missing data" error when the blank-line separator is missing or nothing
\* follows it, and gives Post(body) only with a non-empty body
C9_PostRequiresBody ==
    (Parsed /\ IsPostRequest(text_lines)) =>
        /\ (~HasSeparator(text_lines) \/ AfterSeparator(text_lines) = <<>>)
              => parsed = parse_error("Post missing data")
        /\ IsOk(parsed) => (parsed.method.variant = "Post" /\ parsed.method.data # <<>>)

\* C10: GET gives Get and HEAD gives Head, both without data; POST gives
\* Post with the body; any other method token gives the "failed to match
\* request type" error
C10_MethodDispatch ==
    (Parsed /\ FieldCount(text_lines[1]) = 3 /\ HeadersWellFormed(text_lines)) =>
        LET token == FirstField(text_lines[1])
        IN  /\ token = GET => (IsOk(parsed) /\ parsed.method = MethodGet)
            /\ token = HEAD => (IsOk(parsed) /\ parsed.method = MethodHead)
            /\ (token = POST /\ IsOk(parsed)) =>
                  /\ parsed.method.variant = "Post"
                  /\ parsed.method.data = Concat(Drop(text_lines, FirstBlank(text_lines) + 1))
            /\ token \notin {GET, HEAD, POST} =>
                  parsed = parse_error("Failed to match request type with")

\* the index of the first colon of a line, 0 if it has none
FirstColon(line) ==
    IF \E i \in 1..Len(line) : line[i] = COLON
    THEN CHOOSE i \in 1..Len(line) :
            line[i] = COLON /\ \A k \in 1..(i - 1) : line[k] # COLON
    ELSE 0

\* a character: one byte, or a lead byte and its continuation byte
IsCharacter(bytes) ==
    \/ Len(bytes) = 1 /\ bytes[1] \notin {LEAD, CONT, BAD}
    \/ bytes = <<LEAD, CONT>>

\* header h is what the line with a colon stands for: its name is the text
\* before the first colon, its value the text after that colon less exactly
\* one leading character; Host(value) for the name Host, Other(name, value)
\* for any other name
HeaderOfLine(h, line) ==
    LET i == FirstColon(line)
        before == SubSeq(line, 1, i - 1)
        after == SubSeq(line, i + 1, Len(line))
    IN  /\ \E k \in 1..Len(after) :
              /\ IsCharacter(SubSeq(after, 1, k))
              /\ h.value = SubSeq(after, k + 1, Len(after))
        /\ h.name = before
        /\ h.variant = IF before = HOST THEN "Host" ELSE "Other"

\* C11: of a text with a 3-field first line, each line after the first and
\* before the first blank line is a header: if one of them has no colon the
\* parse returns an error; otherwise it does not fail on the headers, and
\* the headers of the Request it returns are those of the lines (name before
\* the first colon, value after it less exactly one character, Host or
\* Other), one per line and in the order of the lines
C11_HeaderLines ==
    (Parsed /\ FieldCount(text_lines[1]) = 3) =>
        LET hl == HeaderLines(text_lines)
        IN  IF \E i \in 1..Len(hl) : FirstColon(hl[i]) = 0
            THEN IsErr(parsed)
            ELSE /\ ~IsPanic(parsed)
                 /\ parsed # parse_error("Incorrectly formatted header")
                 /\ IsOk(parsed) =>
                       /\ Len(parsed.headers) = Len(hl)
                       /\ \A i \in 1..Len(hl) : HeaderOfLine(parsed.headers[i], hl[i])

\* C19: Request::parse is total: on every text it returns a Request or an
\* error and never panics, a header line with nothing after its colon
\* included
C19_ParseIsTotal ==
    Parsed => (IsOk(parsed) \/ IsErr(parsed))

-----------------------------------------------------------------------------
(* What the claims about to_raw and to_head speak of, written as the bytes *)
(* on the wire                                                             *)

\* the three digits of the status code of each ResponseType
CodeDigits(which) ==
    CASE which = "Ok" -> <<"2", "0", "0">>
      [] which = "Forbidden" -> <<"4", "0", "3">>
      [] which = "NotFound" -> <<"4", "0", "4">>
      [] which = "MethodNotAllowed" -> <<"4", "0", "5">>
      [] which = "InternalServerError" -> <<"5", "0", "0">>

Phrase(which) ==
    CASE which = "Ok" -> STR_OK
      [] which = "Forbidden" -> STR_FORBIDDEN
      [] which = "NotFound" -> STR_NOT_FOUND
      [] which = "MethodNotAllowed" -> STR_METHOD_NOT_ALLOWED
      [] which = "InternalServerError" -> STR_INTERNAL_SERVER_ERROR

\* "<http-version> <numeric-code> <phrase>"
StatusLine(r) ==
    r.http_version \o <<SP>> \o CodeDigits(r.which) \o <<SP>> \o Phrase(r.which)

\* the number a sequence of decimal digits stands for
RECURSIVE DigitsValue(_)
DigitsValue(ds) ==
    IF ds = <<>> THEN 0
    ELSE 10 * DigitsValue(SubSeq(ds, 1, Len(ds) - 1))
         + (CHOOSE d \in 0..9 : Digit(d) = ds[Len(ds)])

IsDecimalOf(ds, n) ==
    /\ ds # <<>>
    /\ \A i \in 1..Len(ds) : \E d \in 0..9 : Digit(d) = ds[i]
    /\ Len(ds) > 1 => ds[1] # "0"
    /\ DigitsValue(ds) = n

WireName(h) ==
    CASE h.variant = "Host" -> HOST
      [] h.variant = "ContentLength" -> STR_CONTENT_LENGTH
      [] h.variant = "ContentType" -> STR_CONTENT_TYPE
      [] h.variant = "Other" -> h.name

WireContentType(c) ==
    (IF c.variant = "TextHTML" THEN STR_TEXT_HTML
     ELSE IF c.variant = "TextJavascript" THEN STR_TEXT_JAVASCRIPT
     ELSE STR_APPLICATION_WASM)
    \o (IF c.charset THEN STR_CHARSET \o STR_UTF8 ELSE <<>>)

\* line is "Name: value" for header h
IsHeaderLine(line, h) ==
    LET n == Len(WireName(h))
        value == SubSeq(line, n + 3, Len(line))
    IN  /\ Len(line) >= n + 2
        /\ SubSeq(line, 1, n) = WireName(h)
        /\ SubSeq(line, n + 1, n + 2) = <<COLON, SP>>
        /\ CASE h.variant = "ContentLength" -> IsDecimalOf(value, h.n)
             [] h.variant = "ContentType" -> value = WireContentType(h.content_type)
             [] OTHER -> value = h.value

\* bytes is the header lines of hs, in the order of hs, with a CRLF between
\* one line and the next
IsHeaderBlock(bytes, hs) ==
    LET lines == Split(bytes, CRLF)
    IN  IF hs = <<>> THEN bytes = <<>>
        ELSE /\ Len(lines) = Len(hs)
             /\ \A i \in 1..Len(hs) : IsHeaderLine(lines[i], hs[i])

\* bytes is status line, CRLF, header lines, CRLF CRLF and then rest
IsFramed(bytes, r, rest) ==
    LET s == Len(StatusLine(r))
        e == Len(bytes) - Len(rest)
    IN  /\ e >= s + 6
        /\ SubSeq(bytes, 1, s) = StatusLine(r)
        /\ SubSeq(bytes, s + 1, s + 2) = CRLF
        /\ IsHeaderBlock(SubSeq(bytes, s + 3, e - 4), r.headers)
        /\ SubSeq(bytes, e - 3, e) = CRLF \o CRLF
        /\ SubSeq(bytes, e + 1, Len(bytes)) = rest

\* C12: to_raw of a Response with a body is the status line
\* "<http-version> <code> <phrase>" with the code and phrase of its
\* ResponseType, CRLF, its headers as "Name: value" lines joined by CRLF in
\* stored order, CRLF CRLF, and then the bytes of the body as they are
C12_RawWithBody ==
    (IsOk(built) /\ built.response.data.some /\ raw_bytes # NoBytes) =>
        IsFramed(raw_bytes, built.response, built.response.data.value)

\* C12 witness: to_raw has run on a 404 Response whose body holds a line end
\* and a byte that is not UTF-8
C12_Witness ==
    /\ IsOk(built) /\ raw_bytes # NoBytes
    /\ built.response.which = "NotFound"
    /\ built.response.data = SomeData(<<LF, BAD>>)

\* C13: to_raw ends the header section with CRLF CRLF for every Response:
\* one without a body (such as the result of to_head) serializes to status
\* line, CRLF, header lines, CRLF CRLF and nothing else
C13_HeaderSectionTerminated ==
    /\ (IsOk(built) /\ raw_bytes # NoBytes) =>
           IsFramed(raw_bytes, built.response, built.response.data.value)
    /\ head_bytes # NoBytes => IsFramed(head_bytes, head_response, <<>>)

\* C14: to_head returns a Response with the status, HTTP version and
\* headers (same order) of the Response it is applied to and with no body,
\* whether that Response has a body or not, and leaves that Response as it was
C14_ToHead ==
    /\ [](head_response # NotBuilt =>
             /\ IsOk(built)
             /\ head_response.which = built.response.which
             /\ head_response.http_version = built.response.http_version
             /\ head_response.headers = built.response.headers
             /\ ~head_response.data.some)
    /\ [][head_response' # head_response => built' = built]_vars

\* C14 witness: to_head has run on the internal-server-error page, whose
\* body is 246 bytes long
C14_Witness ==
    /\ head_response # NotBuilt
    /\ IsOk(built)
    /\ built.response.data.some
    /\ Len(built.response.data.value) > MaxFileLen

-----------------------------------------------------------------------------
(* What the claims about the server speak of *)

JobIds == 1..Len(jobs)
ConnIds == 1..Len(conns)

InExecution(j) == jobs[j].pc \in {"read", "parse", "handle", "write"}
Ended(j) == jobs[j].pc \in {"returned", "panicked"}

\* the peer of c sent bytes, and the read returned them
HasRead(c) == ~conns[c].peer.silent /\ ~conns[c].peer.stalled /\ ~conns[c].peer.reset

\* for each peer that sends bytes: the bytes found in the buffer after the
\* read, whether they are UTF-8, and what Request::parse returns on them
Received ==
    [p \in {q \in Peers : ~q.stalled /\ ~q.reset} |->
        LET buffer == BufferAfterRead(p.sent, ReadCount(p))
        IN  [utf8 |-> ValidUtf8(buffer), parse |-> Request_parse(buffer)]]

\* the bytes read on c are not UTF-8, or Request::parse returns an error on them
DecodeOrParseFails(c) ==
    /\ HasRead(c)
    /\ \/ ~Received[conns[c].peer].utf8
       \/ IsErr(Received[conns[c].peer].parse)

\* the bytes read on c are UTF-8 and Request::parse returns a Request
ParsesOk(c) ==
    /\ HasRead(c)
    /\ Received[conns[c].peer].utf8
    /\ IsOk(Received[conns[c].peer].parse)

IsPrefix(s, t) == Len(s) <= Len(t) /\ s = Take(t, Len(s))

\* C1: every job is taken from the queue and executed by at most one
\* worker: no job is executed twice, no two workers execute the same job,
\* and no two jobs in execution hold the same connection
C1_OneWorkerPerJob ==
    /\ \A j \in JobIds : jobs[j].executions <= 1
    /\ \A j \in JobIds : jobs[j].executions = 1 <=> jobs[j].pc # "queued"
    /\ \A i \in 1..Len(queue) : jobs[queue[i]].pc = "queued"
    /\ \A w1, w2 \in Workers :
          (w1 # w2 /\ Running(w1) /\ Running(w2)) =>
              /\ workers[w1].job # workers[w2].job
              /\ jobs[workers[w1].job].stream # jobs[workers[w2].job].stream
    /\ \A j1, j2 \in JobIds :
          (j1 # j2 /\ InExecution(j1) /\ InExecution(j2)) =>
              jobs[j1].stream # jobs[j2].stream

\* C1 witness: two workers execute two jobs at the same time
C1_Witness ==
    \E w1, w2 \in Workers :
        /\ w1 # w2
        /\ Running(w1) /\ Running(w2)
        /\ InExecution(workers[w1].job) /\ InExecution(workers[w2].job)

\* C2: when drop has returned, the channel is closed, every submitted job
\* was executed exactly once and its execution has ended (none skipped, none
\* left queued), and every worker has terminated
C2_DropCompletesEveryJob ==
    drop_pc = "returned" =>
        /\ ~sender_open
        /\ queue = <<>>
        /\ \A j \in JobIds : jobs[j].executions = 1 /\ Ended(j)
        /\ \A w \in Workers : Finished(w)

\* C3: a handler that fails, by returning an error or by panicking, is
\* caught at the job boundary: the job goes on to write the configured
\* internal-server-error page, what the peer receives is bytes of that page,
\* and the worker that ran the job is not terminated
C3_HandlerFailureGivesErrorPage ==
    \A j \in JobIds :
        jobs[j].handler_outcome \in {"Err", "Panic"} =>
            /\ jobs[j].pc \in {"write", "returned"}
            /\ jobs[j].response = internal_error_page
            /\ IsPrefix(conns[jobs[j].stream].received, to_raw(internal_error_page))
            /\ \A w \in Workers : workers[w] # WorkerAfterPanic(j)

\* C4: when decoding the buffer fails or Request::parse returns an error,
\* the job ends there: the handler is not invoked, nothing is written to the
\* socket, the error is logged by the closure, and the worker that ran the
\* job is no longer running it and was not terminated by it
C4_ParseFailureEndsJob ==
    \A j \in JobIds :
        (DecodeOrParseFails(jobs[j].stream) /\ jobs[j].pc # "parse") =>
            /\ jobs[j].pc = "returned"
            /\ jobs[j].ended_at = "parse"
            /\ jobs[j].logged \in {"Utf8Error", "IOError"}
            /\ ~Received[conns[jobs[j].stream].peer].utf8 <=> jobs[j].logged = "Utf8Error"
            /\ conns[jobs[j].stream].handler_calls = 0
            /\ conns[jobs[j].stream].received = <<>>
            /\ \A w \in Workers : workers[w].job # j

\* C4 witness: one job ended on a decoding error and another on a parse
\* error, and a worker is idle again
C4_Witness ==
    /\ \E j \in JobIds :
          /\ DecodeOrParseFails(jobs[j].stream)
          /\ jobs[j].pc = "returned" /\ jobs[j].logged = "Utf8Error"
    /\ \E j \in JobIds :
          /\ DecodeOrParseFails(jobs[j].stream)
          /\ jobs[j].pc = "returned" /\ jobs[j].logged = "IOError"
    /\ \E w \in Workers : workers[w].state = "idle"

\* C5: on every connection the handler is invoked at most once, on a
\* worker thread only, and only after the bytes read were decoded and parsed
\* successfully; no byte is written before the handler has returned
C5_HandlerOncePerConnection ==
    /\ \A c \in ConnIds :
          /\ conns[c].handler_calls <= 1
          /\ conns[c].handler_threads \subseteq {"worker"}
          /\ conns[c].handler_calls >= 1 => ParsesOk(c)
    /\ \A j \in JobIds :
          conns[jobs[j].stream].received # <<>> =>
              /\ conns[jobs[j].stream].handler_calls = 1
              /\ jobs[j].handler_outcome \in {"Ok", "Err"}

\* C5 witness: a handler call has returned and the response has been written
C5_Witness ==
    \E j \in JobIds :
        /\ conns[jobs[j].stream].handler_calls = 1
        /\ jobs[j].pc = "returned"
        /\ conns[jobs[j].stream].received # <<>>

\* the accept loop of launch is waiting for the next incoming connection
Accepting ==
    /\ launch_pc = "incoming"
    /\ drop_pc = "live"
    /\ Len(conns) + accept_errors < MaxIncoming

\* C6: a failed accept is logged, submits no job and stops neither the loop
\* nor the workers; every successful accept, before or after a failure,
\* submits exactly one job
C6_AcceptFailureKeepsServing ==
    /\ [](Len(jobs) = Len(conns))
    /\ [](accept_errors > 0 => launch_pc = "incoming")
    /\ [](Accepting => ENABLED AcceptOk)
    /\ [][accept_errors' # accept_errors =>
            /\ accept_errors' = accept_errors + 1
            /\ jobs' = jobs /\ queue' = queue /\ conns' = conns
            /\ workers' = workers /\ sender_open' = sender_open
            /\ launch_pc' = "incoming"]_vars
    /\ [][(accept_errors > 0 /\ Len(conns') # Len(conns)) =>
            /\ Len(jobs') = Len(jobs) + 1
            /\ queue' = Append(queue, Len(jobs'))]_vars

\* C6 witness: an accept failed, the next accept succeeded, and the job
\* submitted for it is being executed by a worker
C6_Witness ==
    \E w \in Workers :
        /\ Running(w)
        /\ conns[jobs[workers[w].job].stream].errors_before > 0

\* every worker is executing a job whose peer sends nothing
AllWorkersStalled ==
    \A w \in Workers :
        /\ Running(w)
        /\ conns[jobs[workers[w].job].stream].peer.stalled

\* C7: execute does not wait, so launch can submit while every worker is
\* busy; never more jobs are in execution than there are workers; once every
\* worker is blocked on a stalled peer, it stays so, and a job that is
\* queued or submitted later is never started
C7_PoolStarvesOnStalledPeers ==
    /\ [](Cardinality({j \in JobIds : InExecution(j)}) <= Cardinality(Workers))
    /\ []((Accepting /\ \A w \in Workers : Running(w)) => ENABLED AcceptOk)
    /\ [][AllWorkersStalled =>
            /\ AllWorkersStalled'
            /\ \A j \in 1..Len(jobs') :
                  (j > Len(jobs) \/ jobs[j].pc = "queued") => jobs'[j].pc = "queued"]_vars

\* C7 witness: every worker is blocked on a stalled peer and a job
\* submitted after that is in the queue
C7_Witness ==
    /\ AllWorkersStalled
    /\ queue # <<>>
    /\ Cardinality(Workers) >= 1

\* C15: jobs leave the queue in the order they were submitted (job numbers
\* are given in that order): a job has left the queue only if every job
\* submitted before it has, and the queue holds the waiting jobs oldest first
C15_QueueInSubmissionOrder ==
    /\ \A a, b \in JobIds :
          (a < b /\ jobs[b].pc # "queued") => jobs[a].pc # "queued"
    /\ \A i, k \in 1..Len(queue) : i < k => queue[i] < queue[k]

\* C15 witness: completion order is free; a job has ended while a job
\* submitted before it is still being executed
C15_Witness ==
    \E a, b \in JobIds : a < b /\ Ended(b) /\ InExecution(a)

\* C16: a failed socket read ends the job with a logged error and no
\* response; the worker is not faulted by it
C16_ReadErrorEndsJob ==
    \A j \in JobIds :
        conns[jobs[j].stream].peer.reset =>
            /\ jobs[j].pc = "returned"
            /\ jobs[j].ended_at = "read"
            /\ jobs[j].logged = "IOError"
            /\ conns[jobs[j].stream].received = <<>>
            /\ \A w \in Workers : workers[w] # WorkerAfterPanic(j)

\* C17: a job that returned from the write step without an error has
\* delivered the whole of to_raw(response) to the peer, once
C17_WholeResponseDelivered ==
    \A j \in JobIds :
        (jobs[j].pc = "returned" /\ jobs[j].ended_at = "write" /\ jobs[j].logged = "") =>
            conns[jobs[j].stream].received = to_raw(jobs[j].response)

\* the queue holds exactly the jobs that wait, each once, and no job has
\* been executed more than once
QueueConsistent ==
    /\ \A i, k \in 1..Len(queue) : i # k => queue[i] # queue[k]
    /\ \A j \in JobIds :
          jobs[j].pc = "queued" <=> \E i \in 1..Len(queue) : queue[i] = j
    /\ \A j \in JobIds :
          /\ jobs[j].executions <= 1
          /\ jobs[j].pc # "queued" => jobs[j].executions = 1

SomeWorkerPanicked == \E w \in Workers : workers[w].state = "panicked"

SentParse == [p \in RequestPeers |-> Request_parse(p.sent)]

\* C20: the Request a job holds when it calls the handler is the parse of
\* exactly the bytes its peer sent: same URI, version, headers and method,
\* with the same body or none
C20_RequestIsParseOfSentBytes ==
    \A j \in JobIds :
        jobs[j].pc = "handle" =>
            jobs[j].request = SentParse[conns[jobs[j].stream].peer]

=============================================================================
